---- MODULE Spec2Model ----
(***************************************************************************)
(* Model of src/start.py: the Reflex state class State (text_input,        *)
(* token_count, is_counting, error_message, the class-level encoding) and  *)
(* its event handlers set_text_input and estimate_tokens.                  *)
(*                                                                         *)
(* Every browser session owns one State instance; the encoding is a class  *)
(* attribute shared by all of them.  Reflex runs the event handlers of one *)
(* session one after the other, so a session's set_text_input never runs   *)
(* inside its own estimate_tokens; handlers of different sessions          *)
(* interleave freely.  estimate_tokens is split at its branch points so    *)
(* that the states inside a call are visible.                              *)
(*                                                                         *)
(* The encoder (tiktoken) is a third-party library.  It is modelled by     *)
(* what the call at line 42 can do: for a given text it returns a token    *)
(* list of some length, raises an Exception, or raises an exception that   *)
(* is not a subclass of Exception (a BaseException such as                 *)
(* KeyboardInterrupt or a pyo3 PanicException).  Which of these happens is *)
(* fixed per text by the loaded encoding.                                  *)
(***************************************************************************)
EXTENDS Integers, Sequences, FiniteSets, TLC

\* Longest text a session types.
MaxLen == 2
\* Longest token list the encoder returns.
MaxTokens == 2

Sessions == {"s1", "s2"}
Alphabet == {"a"}

\* The values of text_input: the empty text and the non-empty ones.
Texts == UNION {[1..n -> Alphabet] : n \in 0..MaxLen}
EmptyText == <<>>
NonEmptyTexts == Texts \ {EmptyText}

\* line 19: the value of State.encoding when get_encoding raised.  It is
\* written as the encoder that knows no text at all.
None == [t \in {} |-> 0]

\* What encoding.encode(text) does at line 42: the length of the token list
\* it returns, or the kind of exception it raises.
Returns(n) == [kind |-> "returns", len |-> n]
RaisesException == [kind |-> "Exception", len |-> 0]
RaisesBaseException == [kind |-> "BaseException", len |-> 0]
Outcomes == {Returns(n) : n \in 0..MaxTokens}
                \cup {RaisesException, RaisesBaseException}

\* lines 16-19: get_encoding returned an encoding object, or raised and
\* encoding is None.
Encodings == [NonEmptyTexts -> Outcomes] \cup {None}

\* The three messages of the source.
LoadErrorMsg == "tiktoken encoding could not be loaded."
UnavailableMsg == "Error: Tokenization library not available."
FailedMsg == "Failed to count tokens: e"

VARIABLES
    encoding,       \* State.encoding, class level (lines 16-19)
    text_input,     \* per session (line 9)
    token_count,    \* per session (line 10)
    is_counting,    \* per session (line 11)
    error_message,  \* per session (lines 12, 20)
    pc,             \* per session: position inside estimate_tokens, or "idle"
    exit,           \* per session: how the last estimate_tokens call left
    encode_calls,   \* per session: calls of encoding.encode in the last call
    call_text       \* per session: self.text_input as the last call read it

vars == <<encoding, text_input, token_count, is_counting, error_message,
          pc, exit, encode_calls, call_text>>

\* line 42: encoding.encode(text).  tiktoken encodes the empty text to the
\* empty token list.
encode(enc, t) == IF t = EmptyText THEN Returns(0) ELSE enc[t]

\* line 29: "not self.encoding"; an Encoding object is truthy, None is not.
EncodingAvailable == encoding # None

\* lines 9-20: the class body.  When get_encoding raises, the class-level
\* default of error_message is rebound to the load error.
Init ==
    /\ encoding \in Encodings
    /\ text_input = [s \in Sessions |-> EmptyText]
    /\ token_count = [s \in Sessions |-> 0]
    /\ is_counting = [s \in Sessions |-> FALSE]
    /\ error_message = [s \in Sessions |->
                            IF encoding = None THEN LoadErrorMsg ELSE ""]
    /\ pc = [s \in Sessions |-> "idle"]
    /\ exit = [s \in Sessions |-> "none"]
    /\ encode_calls = [s \in Sessions |-> 0]
    /\ call_text = [s \in Sessions |-> EmptyText]

\* line 63: on_change=State.set_text_input, the setter Reflex generates for
\* the var text_input; it assigns the value and nothing else.
set_text_input(s, t) ==
    /\ pc[s] = "idle"
    /\ text_input' = [text_input EXCEPT ![s] = t]
    /\ UNCHANGED <<encoding, token_count, is_counting, error_message,
                   pc, exit, encode_calls, call_text>>

\* lines 22-27 with line 27 dropped: the previous error message survives.
EstimateBegin_KeepsError(s) ==
    /\ pc[s] = "idle"
    /\ is_counting' = [is_counting EXCEPT ![s] = TRUE]
    /\ token_count' = [token_count EXCEPT ![s] = 0]
    /\ pc' = [pc EXCEPT ![s] = "started"]
    /\ exit' = [exit EXCEPT ![s] = "running"]
    /\ encode_calls' = [encode_calls EXCEPT ![s] = 0]
    /\ call_text' = [call_text EXCEPT ![s] = text_input[s]]
    /\ UNCHANGED <<encoding, text_input, error_message>>

\* lines 22-27 with line 26 dropped: the previous count survives.
EstimateBegin_KeepsCount(s) ==
    /\ pc[s] = "idle"
    /\ is_counting' = [is_counting EXCEPT ![s] = TRUE]
    /\ error_message' = [error_message EXCEPT ![s] = ""]
    /\ pc' = [pc EXCEPT ![s] = "started"]
    /\ exit' = [exit EXCEPT ![s] = "running"]
    /\ encode_calls' = [encode_calls EXCEPT ![s] = 0]
    /\ call_text' = [call_text EXCEPT ![s] = text_input[s]]
    /\ UNCHANGED <<encoding, text_input, token_count>>

\* lines 22-27 that also clear the text box.
EstimateBegin_ClearsText(s) ==
    /\ pc[s] = "idle"
    /\ is_counting' = [is_counting EXCEPT ![s] = TRUE]
    /\ token_count' = [token_count EXCEPT ![s] = 0]
    /\ error_message' = [error_message EXCEPT ![s] = ""]
    /\ text_input' = [text_input EXCEPT ![s] = EmptyText]
    /\ pc' = [pc EXCEPT ![s] = "started"]
    /\ exit' = [exit EXCEPT ![s] = "running"]
    /\ encode_calls' = [encode_calls EXCEPT ![s] = 0]
    /\ call_text' = [call_text EXCEPT ![s] = text_input[s]]
    /\ UNCHANGED <<encoding>>

\* lines 22-27: estimate_tokens is entered; the loading flag is set and the
\* count and the error message are reset.
EstimateBegin(s) ==
    /\ pc[s] = "idle"
    /\ is_counting' = [is_counting EXCEPT ![s] = TRUE]
    /\ token_count' = [token_count EXCEPT ![s] = 0]
    /\ error_message' = [error_message EXCEPT ![s] = ""]
    /\ pc' = [pc EXCEPT ![s] = "started"]
    /\ exit' = [exit EXCEPT ![s] = "running"]
    /\ encode_calls' = [encode_calls EXCEPT ![s] = 0]
    /\ call_text' = [call_text EXCEPT ![s] = text_input[s]]
    /\ UNCHANGED <<encoding, text_input>>

\* lines 29-32 with line 30 dropped: the early return leaves no message.
EstimateUnavailable_NoMessage(s) ==
    /\ pc[s] = "started"
    /\ ~EncodingAvailable
    /\ is_counting' = [is_counting EXCEPT ![s] = FALSE]
    /\ pc' = [pc EXCEPT ![s] = "idle"]
    /\ exit' = [exit EXCEPT ![s] = "unavailable"]
    /\ UNCHANGED <<encoding, text_input, token_count, error_message,
                   encode_calls, call_text>>

\* lines 29-32: the encoding is None; report it and return.
EstimateUnavailable(s) ==
    /\ pc[s] = "started"
    /\ ~EncodingAvailable
    /\ error_message' = [error_message EXCEPT ![s] = UnavailableMsg]
    /\ is_counting' = [is_counting EXCEPT ![s] = FALSE]
    /\ pc' = [pc EXCEPT ![s] = "idle"]
    /\ exit' = [exit EXCEPT ![s] = "unavailable"]
    /\ UNCHANGED <<encoding, text_input, token_count,
                   encode_calls, call_text>>

\* lines 35-38 dropped: the empty text goes to the encoder like any other.
EstimateEmpty_Encodes(s) ==
    /\ pc[s] = "started"
    /\ EncodingAvailable
    /\ Len(text_input[s]) = 0
    /\ encode_calls' = [encode_calls EXCEPT ![s] = @ + 1]
    /\ token_count' = [token_count EXCEPT
                           ![s] = encode(encoding, text_input[s]).len]
    /\ pc' = [pc EXCEPT ![s] = "finally"]
    /\ exit' = [exit EXCEPT ![s] = "counted"]
    /\ UNCHANGED <<encoding, text_input, is_counting, error_message,
                   call_text>>

\* lines 35-38 with line 37 dropped: the early return leaves the flag set.
EstimateEmpty_KeepsCounting(s) ==
    /\ pc[s] = "started"
    /\ EncodingAvailable
    /\ Len(text_input[s]) = 0
    /\ token_count' = [token_count EXCEPT ![s] = 0]
    /\ pc' = [pc EXCEPT ![s] = "idle"]
    /\ exit' = [exit EXCEPT ![s] = "empty"]
    /\ UNCHANGED <<encoding, text_input, is_counting, error_message,
                   encode_calls, call_text>>

\* lines 35-38: the text is empty; the count is zero and the call returns
\* without reaching the try block.
EstimateEmpty(s) ==
    /\ pc[s] = "started"
    /\ EncodingAvailable
    /\ Len(text_input[s]) = 0
    /\ token_count' = [token_count EXCEPT ![s] = 0]
    /\ is_counting' = [is_counting EXCEPT ![s] = FALSE]
    /\ pc' = [pc EXCEPT ![s] = "idle"]
    /\ exit' = [exit EXCEPT ![s] = "empty"]
    /\ UNCHANGED <<encoding, text_input, error_message,
                   encode_calls, call_text>>

\* lines 40-43 with line 43 dropped: the token list is not counted.
EncodeReturns_NoAssign(s) ==
    /\ pc[s] = "started"
    /\ EncodingAvailable
    /\ Len(text_input[s]) > 0
    /\ encode(encoding, text_input[s]).kind = "returns"
    /\ encode_calls' = [encode_calls EXCEPT ![s] = @ + 1]
    /\ pc' = [pc EXCEPT ![s] = "finally"]
    /\ exit' = [exit EXCEPT ![s] = "counted"]
    /\ UNCHANGED <<encoding, text_input, token_count, is_counting,
                   error_message, call_text>>

\* lines 40-43: encode returns the token list; its length is the count.
EncodeReturns(s) ==
    /\ pc[s] = "started"
    /\ EncodingAvailable
    /\ Len(text_input[s]) > 0
    /\ encode(encoding, text_input[s]).kind = "returns"
    /\ encode_calls' = [encode_calls EXCEPT ![s] = @ + 1]
    /\ token_count' = [token_count EXCEPT
                           ![s] = encode(encoding, text_input[s]).len]
    /\ pc' = [pc EXCEPT ![s] = "finally"]
    /\ exit' = [exit EXCEPT ![s] = "counted"]
    /\ UNCHANGED <<encoding, text_input, is_counting, error_message,
                   call_text>>

\* lines 42-45 that also give up the encoding after a failure.
EncodeRaises_DropsEncoding(s) ==
    /\ pc[s] = "started"
    /\ EncodingAvailable
    /\ Len(text_input[s]) > 0
    /\ encode(encoding, text_input[s]) = RaisesException
    /\ encode_calls' = [encode_calls EXCEPT ![s] = @ + 1]
    /\ error_message' = [error_message EXCEPT ![s] = FailedMsg]
    /\ encoding' = None
    /\ pc' = [pc EXCEPT ![s] = "finally"]
    /\ exit' = [exit EXCEPT ![s] = "caught"]
    /\ UNCHANGED <<text_input, token_count, is_counting, call_text>>

\* lines 42-45: encode raises an Exception; the except clause turns it into
\* the error message.  token_count keeps the 0 of line 26.
EncodeRaises(s) ==
    /\ pc[s] = "started"
    /\ EncodingAvailable
    /\ Len(text_input[s]) > 0
    /\ encode(encoding, text_input[s]) = RaisesException
    /\ encode_calls' = [encode_calls EXCEPT ![s] = @ + 1]
    /\ error_message' = [error_message EXCEPT ![s] = FailedMsg]
    /\ pc' = [pc EXCEPT ![s] = "finally"]
    /\ exit' = [exit EXCEPT ![s] = "caught"]
    /\ UNCHANGED <<encoding, text_input, token_count, is_counting,
                   call_text>>

\* lines 42-44: encode raises an exception that "except Exception" does not
\* match; it passes the except clause and is still in flight.
EncodePropagates(s) ==
    /\ pc[s] = "started"
    /\ EncodingAvailable
    /\ Len(text_input[s]) > 0
    /\ encode(encoding, text_input[s]) = RaisesBaseException
    /\ encode_calls' = [encode_calls EXCEPT ![s] = @ + 1]
    /\ pc' = [pc EXCEPT ![s] = "finally"]
    /\ exit' = [exit EXCEPT ![s] = "propagated"]
    /\ UNCHANGED <<encoding, text_input, token_count, is_counting,
                   error_message, call_text>>

\* lines 46-47: the finally clause runs on the three ways out of the try
\* block; then the call returns, or the exception in flight leaves it.
EstimateFinally(s) ==
    /\ pc[s] = "finally"
    /\ is_counting' = [is_counting EXCEPT ![s] = FALSE]
    /\ pc' = [pc EXCEPT ![s] = "idle"]
    /\ UNCHANGED <<encoding, text_input, token_count, error_message,
                   exit, encode_calls, call_text>>

\* The steps of a call of estimate_tokens that is under way.
EstimateStep(s) ==
    \/ EstimateUnavailable(s)
    \/ EstimateEmpty(s)
    \/ EncodeReturns(s)
    \/ EncodeRaises(s)
    \/ EncodePropagates(s)
    \/ EstimateFinally(s)

Next ==
    \E s \in Sessions :
        \/ \E t \in Texts : set_text_input(s, t)
        \/ EstimateBegin(s)
        \/ EstimateStep(s)

Spec == Init /\ [][Next]_vars

\* A handler that was entered runs on: the interpreter executes it to its
\* end once encode has returned or raised.  The events themselves (typing,
\* clicking) are the user's and carry no fairness.
FairSpec == Spec /\ \A s \in Sessions : WF_vars(EstimateStep(s))

TypeOK ==
    /\ encoding \in Encodings
    /\ text_input \in [Sessions -> Texts]
    /\ token_count \in [Sessions -> 0..MaxTokens]
    /\ is_counting \in [Sessions -> BOOLEAN]
    /\ error_message \in [Sessions ->
                            {"", LoadErrorMsg, UnavailableMsg, FailedMsg}]
    /\ pc \in [Sessions -> {"idle", "started", "finally"}]
    /\ exit \in [Sessions -> {"none", "running", "unavailable", "empty",
                              "counted", "caught", "propagated"}]
    /\ encode_calls \in [Sessions -> 0..1]
    /\ call_text \in [Sessions -> Texts]

\* A call of estimate_tokens by session s has been made and has left.
Completed(s) == pc[s] = "idle" /\ exit[s] # "none"

\* The non-degenerate encoder of the count's contract: it maps every
\* non-empty text to a token list of at least one token.
NonDegenerate ==
    /\ EncodingAvailable
    /\ \A t \in NonEmptyTexts :
           encoding[t].kind = "returns" /\ encoding[t].len >= 1

(***************************************************************************)
(* C1: when the encoding failed to load, every completed estimate_tokens   *)
(* call, whatever the text and whatever calls came before, left through    *)
(* the early return of lines 29-32 with a non-empty error_message; it is   *)
(* never a plain zero count without an error.                              *)
(***************************************************************************)
C1_LoadFailureIsAnError ==
    \A s \in Sessions :
        (encoding = None /\ Completed(s)) =>
            /\ exit[s] = "unavailable"
            /\ error_message[s] # ""
            /\ encode_calls[s] = 0

\* A session counted a non-empty text without an encoding.
C1_Witness ==
    \E s \in Sessions :
        /\ encoding = None
        /\ Completed(s)
        /\ Len(call_text[s]) > 0
        /\ error_message[s] = UnavailableMsg

(***************************************************************************)
(* C2: with a loaded encoding and the empty text, estimate_tokens ends     *)
(* with token_count = 0 and an empty error_message, and encode was not     *)
(* called during that call.                                                *)
(***************************************************************************)
C2_EmptyTextIsZero ==
    \A s \in Sessions :
        (EncodingAvailable /\ Completed(s) /\ call_text[s] = EmptyText) =>
            /\ token_count[s] = 0
            /\ error_message[s] = ""
            /\ encode_calls[s] = 0

\* A session counted the empty text with a loaded encoding.
C2_Witness ==
    \E s \in Sessions :
        /\ EncodingAvailable
        /\ Completed(s)
        /\ exit[s] = "empty"
        /\ text_input[s] = EmptyText

(***************************************************************************)
(* C3: whatever encode does, return a token list or raise any exception,   *)
(* estimate_tokens returns normally, and after a raised exception the      *)
(* state carries a non-empty error_message.                                *)
(***************************************************************************)
C3_NeverThrown ==
    \A s \in Sessions :
        Completed(s) =>
            /\ exit[s] # "propagated"
            /\ (exit[s] = "caught" => error_message[s] # "")

(***************************************************************************)
(* C4: the result of a call is a function of the text and the encoding     *)
(* only.  Two sessions share the encoding and differ in everything their   *)
(* earlier calls left behind; whenever both have completed a call on the   *)
(* same text, they hold the same token_count and the same error_message.   *)
(* A session repeating a call on a text is one of the histories compared.  *)
(***************************************************************************)
C4_Deterministic ==
    \A s1, s2 \in Sessions :
        (Completed(s1) /\ Completed(s2) /\ call_text[s1] = call_text[s2]) =>
            /\ token_count[s1] = token_count[s2]
            /\ error_message[s1] = error_message[s2]
            /\ exit[s1] = exit[s2]

\* Two sessions have counted the same non-empty text to a positive count.
C4_Witness ==
    \E s1, s2 \in Sessions :
        /\ s1 # s2
        /\ Completed(s1) /\ Completed(s2)
        /\ call_text[s1] = call_text[s2]
        /\ Len(call_text[s1]) > 0
        /\ token_count[s1] > 0
        /\ text_input[s1] # text_input[s2]

(***************************************************************************)
(* C5: with a loaded encoding that maps every non-empty text to at least   *)
(* one token, after every completed estimate_tokens call token_count is a  *)
(* non-negative integer and is 0 only if the text_input the call read was  *)
(* the empty string.                                                       *)
(***************************************************************************)
C5_ZeroOnlyForEmpty ==
    \A s \in Sessions :
        (NonDegenerate /\ Completed(s)) =>
            /\ token_count[s] \in Nat
            /\ (token_count[s] = 0 => call_text[s] = EmptyText)
            /\ (call_text[s] = EmptyText => token_count[s] = 0)

\* A non-empty text was counted by a non-degenerate encoder.
C5_Witness ==
    \E s \in Sessions :
        /\ NonDegenerate
        /\ Completed(s)
        /\ Len(call_text[s]) > 0
        /\ token_count[s] >= 1

(***************************************************************************)
(* C6: outside a call in progress (the initial state included), a session  *)
(* never holds token_count > 0 together with a non-empty error_message.    *)
(***************************************************************************)
C6_CountOrError ==
    \A s \in Sessions :
        pc[s] = "idle" => ~(token_count[s] > 0 /\ error_message[s] # "")

\* One session shows a count while the other shows the error of a failed
\* encode.
C6_Witness ==
    \E s1, s2 \in Sessions :
        /\ Completed(s1) /\ token_count[s1] > 0
        /\ Completed(s2) /\ exit[s2] = "caught"
        /\ error_message[s2] = FailedMsg

(***************************************************************************)
(* C7: no step of any session, in any interleaving, writes State.encoding: *)
(* it keeps the value the class body gave it.                              *)
(***************************************************************************)
C7_EncodingReadOnly == [][encoding' = encoding]_vars

\* Two calls of different sessions are under way at once, one of them
\* after a failed encode.
C7_Witness ==
    \E s1, s2 \in Sessions :
        /\ s1 # s2
        /\ EncodingAvailable
        /\ pc[s1] = "finally" /\ exit[s1] = "caught"
        /\ pc[s2] = "started"

(***************************************************************************)
(* C9: is_counting is false in every state outside a call in progress, and *)
(* every call that was entered leaves (encode returning or raising) with   *)
(* is_counting false.                                                      *)
(***************************************************************************)
C9_CountingFlagCleared ==
    \A s \in Sessions :
        /\ [](pc[s] = "idle" => ~is_counting[s])
        /\ (pc[s] # "idle") ~> (pc[s] = "idle" /\ ~is_counting[s])

\* A call left through the finally clause with an exception in flight.
C9_Witness ==
    \E s \in Sessions :
        /\ Completed(s)
        /\ exit[s] = "propagated"
        /\ ~is_counting[s]

(***************************************************************************)
(* C10: a step that changes a session's text_input is a set_text_input     *)
(* step: it is taken outside a call and leaves token_count, error_message, *)
(* is_counting and the encoding as they were, so the count on display      *)
(* stays that of the text last counted; no step of estimate_tokens changes *)
(* text_input.                                                             *)
(***************************************************************************)
C10_TextFrame ==
    [][\A s \in Sessions :
          /\ (pc[s] # "idle" \/ pc'[s] # "idle") =>
                 text_input'[s] = text_input[s]
          /\ text_input'[s] # text_input[s] =>
                 /\ token_count'[s] = token_count[s]
                 /\ error_message'[s] = error_message[s]
                 /\ is_counting'[s] = is_counting[s]
                 /\ encoding' = encoding
          /\ (Completed(s) /\ exit[s] = "counted") =>
                 token_count[s] = encode(encoding, call_text[s]).len]_vars

\* The text was edited after a count: the count on display is that of the
\* earlier text.
C10_Witness ==
    \E s \in Sessions :
        /\ Completed(s)
        /\ exit[s] = "counted"
        /\ token_count[s] > 0
        /\ text_input[s] # call_text[s]

====
